---- MODULE Spec2Model ----
(***************************************************************************)
(* Model of src/src/nhl_scraper.py: the poll loop of main(), the entity    *)
(* fetcher get_team_stats(), the metric calculator enrich_data() and the   *)
(* CSV snapshot written with DataFrame.to_csv().                           *)
(*                                                                         *)
(* A float64 is modelled exactly: [k |-> "fin", n |-> num, d |-> den] is   *)
(* the rational n/d, [k |-> "inf"] carries its sign in n, [k |-> "nan"]    *)
(* is NaN.  A DataFrame is [columns |-> <<names>>, rows |-> <<records>>].  *)
(* A player's name f"{first} {last}" is the pair <<first, last>>.          *)
(***************************************************************************)
EXTENDS Integers, Sequences, FiniteSets, TLC

VARIABLES
    pc,         \* control point of main(): loop_top, fetch, check, process, write, idle, crashed
    team_i,     \* position of the for loop of line 95 in TEAMS_TO_WATCH
    all_data,   \* the accumulator of line 91
    df_final,   \* the snapshot of line 115
    file,       \* contents of OUTPUT_FILE
    console,    \* lines printed in the current cycle
    slept,      \* durations passed to time.sleep in the current cycle (seconds)
    requested,  \* urls passed to session.get in the current cycle (by team code)
    fetched,    \* records returned by get_team_stats in the current cycle
    write_log,  \* outcomes of to_csv in the current cycle
    prev_cycle, \* how the previous cycle ended: first, skipped, ok, PermissionError
    raised      \* the exception that ended the process, "none" while it runs

vars == <<pc, team_i, all_data, df_final, file, console, slept, requested,
          fetched, write_log, prev_cycle, raised>>

----------------------------------------------------------------------------
(* Configuration, lines 9-15.                                              *)

TEAMS_TO_WATCH ==
    << "ANA", "BOS", "BUF", "CGY", "CAR", "CHI", "COL", "CBJ", "DAL",
       "DET", "EDM", "FLA", "LAK", "MIN", "MTL", "NSH", "NJD", "NYI", "NYR",
       "OTT", "PHI", "PIT", "SJS", "SEA", "STL", "TBL", "TOR", "UTA", "VAN",
       "VGK", "WSH", "WPG" >>

\* The model polls the first NumTeams teams of TEAMS_TO_WATCH.
NumTeams == 2

Teams == SubSeq(TEAMS_TO_WATCH, 1, NumTeams)

REFRESH_RATE_MINUTES == 5

RATE_LIMIT_PAUSE == 5

----------------------------------------------------------------------------
(* float64 arithmetic as pandas applies it to whole columns.               *)

Fin(n, d) == [k |-> "fin", n |-> n, d |-> d]
Inf(s)    == [k |-> "inf", n |-> s, d |-> 1]
NaN       == [k |-> "nan", n |-> 0, d |-> 1]

Abs(x) == IF x < 0 THEN -x ELSE x

\* Series / Series on int64 columns: true division, x/0 is +-inf, 0/0 is NaN.
TrueDiv(a, b) ==
    IF b # 0 THEN (IF b > 0 THEN Fin(a, b) ELSE Fin(-a, -b))
    ELSE IF a = 0 THEN NaN
    ELSE IF a > 0 THEN Inf(1) ELSE Inf(-1)

\* Series * 100
Times(x, c) == IF x.k = "fin" THEN Fin(x.n * c, x.d) ELSE x

\* Series.fillna(0): only NaN is a missing value, an infinity is kept.
fillna(x, v) == IF x.k = "nan" THEN Fin(v, 1) ELSE x

Pow10(e) == IF e = 0 THEN 1 ELSE IF e = 1 THEN 10 ELSE 100

\* Series.round(decimals): to the nearest multiple of 10^-decimals, ties to even.
round(x, decimals) ==
    IF x.k # "fin" THEN x
    ELSE LET s   == Pow10(decimals)
             a   == Abs(x.n) * s
             q   == a \div x.d
             r   == a % x.d
             up  == IF 2 * r > x.d THEN q + 1
                    ELSE IF 2 * r = x.d THEN q + (q % 2)
                    ELSE q
         IN  Fin((IF x.n < 0 THEN -up ELSE up), s)

----------------------------------------------------------------------------
(* What the remote endpoint can answer to one request (line 30).  A player *)
(* object is a JSON object; any of its fields may be absent.               *)

Name(s) == [default |-> s]

Marchand ==
    [firstName |-> Name("Brad"), lastName |-> Name("Marchand"),
     positionCode |-> "L", gamesPlayed |-> 10, goals |-> 5, assists |-> 5,
     points |-> 10, shots |-> 50, plusMinus |-> 3, penaltyMinutes |-> 8,
     gameWinningGoals |-> 1, powerPlayGoals |-> 2, shorthandedGoals |-> 0]

\* Three games played: ratios that need rounding (2/3, 1/3).
Veteran ==
    [firstName |-> Name("Vet"), lastName |-> Name("Eran"),
     positionCode |-> "D", gamesPlayed |-> 3, goals |-> 1, assists |-> 1,
     points |-> 2, shots |-> 3, plusMinus |-> -2, penaltyMinutes |-> 4,
     gameWinningGoals |-> 0, powerPlayGoals |-> 0, shorthandedGoals |-> 1]

\* Only the name is present: every stat takes its default.
Rookie == [firstName |-> Name("Roo"), lastName |-> Name("Kie")]

\* gamesPlayed and shots are absent while goals and points are present.
CallUp ==
    [firstName |-> Name("Cal"), lastName |-> Name("Lup"),
     positionCode |-> "C", goals |-> 1, assists |-> 0, points |-> 1]

\* No firstName at all.
NoFirstName == [lastName |-> Name("Doe"), positionCode |-> "R", points |-> 4]

\* lastName is an object without the 'default' key.
NoDefaultName ==
    [firstName |-> Name("Jean"), lastName |-> [fr |-> "Untel"], points |-> 2]

NoBody == [skaters |-> <<>>]

Bodies ==
    { [skaters |-> <<>>],
      [goalies |-> <<>>],
      [skaters |-> <<Rookie, Veteran>>],
      [skaters |-> <<CallUp>>],
      [skaters |-> <<Marchand, NoFirstName>>],
      [skaters |-> <<NoDefaultName>>] }

Resp(exc, status, json_ok, data) ==
    [exc |-> exc, status |-> status, json_ok |-> json_ok, data |-> data]

\* exc: the exception session.get raises, "none" when a response arrives;
\* json_ok: whether the body of the response parses as JSON.
Responses ==
    { Resp("Timeout", 0, FALSE, NoBody),
      Resp("ConnectionError", 0, FALSE, NoBody),
      Resp("none", 429, FALSE, NoBody),
      Resp("none", 404, FALSE, NoBody),
      Resp("none", 500, FALSE, NoBody),
      Resp("none", 200, FALSE, NoBody) }
    \cup { Resp("none", 200, TRUE, d) : d \in Bodies }

----------------------------------------------------------------------------
(* get_team_stats, lines 22-63.                                            *)

\* dict.get(key, default)
Get(obj, key, default) == IF key \in DOMAIN obj THEN obj[key] ELSE default

\* player['firstName']['default'] and player['lastName']['default'] of line 45
\* raise KeyError when a key is absent.
NameKeyError(player) ==
    \/ "firstName" \notin DOMAIN player
    \/ "lastName" \notin DOMAIN player
    \/ "default" \notin DOMAIN player.firstName
    \/ "default" \notin DOMAIN player.lastName

\* The dict appended at lines 43-58.
ProcessedPlayer(team_abbr, player) ==
    [Team        |-> team_abbr,
     Player      |-> <<player.firstName.default, player.lastName.default>>,
     Position    |-> Get(player, "positionCode", "N/A"),
     GamesPlayed |-> Get(player, "gamesPlayed", 0),
     Goals       |-> Get(player, "goals", 0),
     Assists     |-> Get(player, "assists", 0),
     Points      |-> Get(player, "points", 0),
     Shots       |-> Get(player, "shots", 0),
     PlusMinus   |-> Get(player, "plusMinus", 0),
     PIM         |-> Get(player, "penaltyMinutes", 0),
     GWG         |-> Get(player, "gameWinningGoals", 0),
     PPG         |-> Get(player, "powerPlayGoals", 0),
     SHG         |-> Get(player, "shorthandedGoals", 0)]

\* What one call does: the urls it requested, what it printed, how long it
\* slept, the list it returned, and the exception that escaped it ("none"
\* when it returned).
Outcome(gets, printed, sleeps, ret, exc) ==
    [gets |-> gets, printed |-> printed, sleeps |-> sleeps, ret |-> ret, exc |-> exc]

\* The except clause of lines 61-63.
NetworkError(team_abbr) ==
    Outcome(<<team_abbr>>, << <<"Network error with", team_abbr>> >>, <<>>, <<>>, "none")

\* A rate-limit branch that asks again after the pause.
RateLimited_retry(team_abbr) ==
    Outcome(<<team_abbr, team_abbr>>, << <<"Rate limit hit for", team_abbr>> >>,
            <<RATE_LIMIT_PAUSE>>, <<>>, "none")

\* The rate-limit branch of lines 33-36: one pause, an empty list, no retry.
RateLimited(team_abbr) ==
    Outcome(<<team_abbr>>, << <<"Rate limit hit for", team_abbr>> >>,
            <<RATE_LIMIT_PAUSE>>, <<>>, "none")

get_team_stats(team_abbr, resp) ==
    IF resp.exc # "none"
    THEN NetworkError(team_abbr)                       \* session.get raised
    ELSE IF resp.status = 429
    THEN RateLimited(team_abbr)
    ELSE IF resp.status >= 400
    THEN NetworkError(team_abbr)                       \* raise_for_status: HTTPError
    ELSE IF ~resp.json_ok
    THEN NetworkError(team_abbr)                       \* response.json(): JSONDecodeError
    ELSE LET skaters == Get(resp.data, "skaters", <<>>) IN
         IF \E i \in 1..Len(skaters) : NameKeyError(skaters[i])
         THEN Outcome(<<team_abbr>>, <<>>, <<>>, <<>>, "KeyError")
         ELSE Outcome(<<team_abbr>>, <<>>, <<>>,
                      [i \in 1..Len(skaters) |-> ProcessedPlayer(team_abbr, skaters[i])],
                      "none")

----------------------------------------------------------------------------
(* enrich_data, lines 65-77.                                               *)

\* pd.DataFrame(all_data): the columns are the keys of the dicts, in order.
RawColumns ==
    << "Team", "Player", "Position", "GamesPlayed", "Goals", "Assists",
       "Points", "Shots", "PlusMinus", "PIM", "GWG", "PPG", "SHG" >>

DataFrame(data) == [columns |-> RawColumns, rows |-> data]

EmptyFrame == [columns |-> <<>>, rows |-> <<>>]

\* datetime.now() formatted to the second; one value stands for the clock.
Now == "now"

Pts_Per_Game(r)          == round(fillna(TrueDiv(r.Points, r.GamesPlayed), 0), 2)
Shooting_Pct(r)          == round(fillna(Times(TrueDiv(r.Goals, r.Shots), 100), 0), 1)
Goal_Contribution_Pct(r) == round(fillna(Times(TrueDiv(r.Goals, r.Points), 100), 0), 1)
Assists_Per_Game(r)      == round(fillna(TrueDiv(r.Assists, r.GamesPlayed), 0), 2)
Shots_Per_Game(r)        == round(fillna(TrueDiv(r.Shots, r.GamesPlayed), 0), 2)

EnrichedColumns ==
    << "Pts_Per_Game", "Shooting_Pct", "Goal_Contribution_Pct",
       "Assists_Per_Game", "Shots_Per_Game", "Last_Update" >>

EnrichRow(r) ==
    r @@ [Pts_Per_Game          |-> Pts_Per_Game(r),
          Shooting_Pct          |-> Shooting_Pct(r),
          Goal_Contribution_Pct |-> Goal_Contribution_Pct(r),
          Assists_Per_Game      |-> Assists_Per_Game(r),
          Shots_Per_Game        |-> Shots_Per_Game(r),
          Last_Update           |-> Now]

enrich_data(df) ==
    [columns |-> df.columns \o EnrichedColumns,
     rows    |-> [i \in 1..Len(df.rows) |-> EnrichRow(df.rows[i])]]

----------------------------------------------------------------------------
(* Ordering and serialisation, lines 107-118.                              *)

Range(s) == { s[i] : i \in 1..Len(s) }

\* A column list that puts the team before the player.
cols_order_team_first ==
    << "Team", "Player", "Position", "GamesPlayed", "Points",
       "Goals", "Assists", "Pts_Per_Game", "Shooting_Pct",
       "PlusMinus", "PIM", "GWG", "PPG", "SHG",
       "Goal_Contribution_Pct", "Assists_Per_Game", "Shots_Per_Game",
       "Last_Update" >>

cols_order ==
    << "Player", "Team", "Position", "GamesPlayed", "Points",
       "Goals", "Assists", "Pts_Per_Game", "Shooting_Pct",
       "PlusMinus", "PIM", "GWG", "PPG", "SHG",
       "Goal_Contribution_Pct", "Assists_Per_Game", "Shots_Per_Game",
       "Last_Update" >>

\* df[cols]: the listed columns, in the listed order.
Select(df, cols) ==
    [columns |-> cols,
     rows    |-> [i \in 1..Len(df.rows) |-> [c \in Range(cols) |-> df.rows[i][c]]]]

\* The sort with ascending=True.
sort_values_ascending(rows) ==
    { [i \in 1..Len(rows) |-> rows[p[i]]] :
        p \in { q \in Permutations(1..Len(rows)) :
                  \A i, j \in 1..Len(rows) :
                      i < j => rows[q[i]].Points <= rows[q[j]].Points } }

\* The orders sort_values(by='Points', ascending=False) may give a list of
\* rows: its default sort is not stable, rows of equal Points come in any order.
sort_values(rows) ==
    { [i \in 1..Len(rows) |-> rows[p[i]]] :
        p \in { q \in Permutations(1..Len(rows)) :
                  \A i, j \in 1..Len(rows) :
                      i < j => rows[q[i]].Points >= rows[q[j]].Points } }

\* A file that does not exist.
NoFile == [header |-> <<>>, lines |-> <<>>]

\* to_csv(OUTPUT_FILE, index=False): a header line of the column names, then
\* one line per row holding the cells of that row in column order.
to_csv(df) ==
    [header |-> df.columns,
     lines  |-> [i \in 1..Len(df.rows) |->
                    [c \in 1..Len(df.columns) |-> df.rows[i][df.columns[c]]]]]

\* Reading the file back: each line becomes a record keyed by the header.
ColumnIndex(header, name) == CHOOSE c \in 1..Len(header) : header[c] = name

\* Text cells a reader takes for a missing value.
NaValues == {"", "N/A", "NA", "NULL", "NaN", "n/a", "nan", "null", "None"}

TextColumns == {"Team", "Position", "Last_Update"}

ParseCell(name, cell) ==
    IF name \in TextColumns /\ cell \in NaValues THEN "<missing>" ELSE cell

\* The lines of the file as records keyed by the header, cells as written.
FileRecords(f) ==
    [i \in 1..Len(f.lines) |->
        [name \in Range(f.header) |-> f.lines[i][ColumnIndex(f.header, name)]]]

\* The same with each cell parsed as a reader of delimited text parses it.
read_csv(f) ==
    [i \in 1..Len(f.lines) |->
        [name \in Range(f.header) |-> ParseCell(name, FileRecords(f)[i][name])]]

\* The try of lines 117-123 on snapshot df with file f on disk; locked: another
\* process holds the destination, so opening it raises PermissionError.
Written(f, printed, result, exc) ==
    [file |-> f, printed |-> printed, result |-> result, exc |-> exc]

\* A write without the except clause: PermissionError escapes main.
except_PermissionError_missing(f) ==
    Written(f, <<>>, "PermissionError", "PermissionError")

\* The except clause of lines 122-123: the file is untouched, the error is printed.
except_PermissionError(f) ==
    Written(f, << <<"ERROR: Close the CSV file!", "">> >>, "PermissionError", "none")

try_to_csv(df, f, locked) ==
    IF locked THEN except_PermissionError(f)
    ELSE IF Len(df.rows) = 0
    THEN Written(to_csv(df), <<>>, "ok", "IndexError")       \* df_final.iloc[0]
    ELSE Written(to_csv(df), << <<"Data Saved. Leader:", df.rows[1].Team>> >>,
                 "ok", "none")

----------------------------------------------------------------------------
(* main, lines 79-129.                                                     *)

\* An accumulator that is not emptied when a cycle starts.
InitAllData_stale == all_data

\* all_data = [] of line 91.
InitAllData == <<>>

\* The truth value of a list: if team_data (line 98), if all_data (line 102).
Truthy(list) == Len(list) > 0

\* A loop that processes the accumulator without testing it.
HasData_always(data) == TRUE

HasData(data) == Truthy(data)

\* A loop that steps over every second team.
NextTeam_skip(i) == i + 2

\* The for loop of line 95 moves to the next team.
NextTeam(i) == i + 1

\* A file left at OUTPUT_FILE by an earlier run of the program.
OldFile ==
    to_csv(Select(enrich_data(DataFrame(<<ProcessedPlayer("WPG", Veteran)>>)), cols_order))

Init ==
    /\ pc = "loop_top"
    /\ team_i = 0
    /\ all_data = <<>>
    /\ df_final = EmptyFrame
    /\ file \in {NoFile, OldFile}
    /\ console = <<>>
    /\ slept = <<>>
    /\ requested = <<>>
    /\ fetched = <<>>
    /\ write_log = <<>>
    /\ prev_cycle = "first"
    /\ raised = "none"

\* How the cycle that just ended went, from what it logged.
CycleEnd(wlog, out) ==
    IF Len(out) = 0 THEN "first"
    ELSE IF Len(wlog) = 0 THEN "skipped"
    ELSE wlog[Len(wlog)]

\* Lines 90-95: a new cycle starts with an empty accumulator.  The frames of
\* the previous iteration are dead from here on and are dropped; the logs of
\* the previous cycle are cleared.
LoopTop ==
    /\ pc = "loop_top"
    /\ pc' = "fetch"
    /\ team_i' = 1
    /\ all_data' = InitAllData
    /\ df_final' = EmptyFrame
    /\ console' = << <<"Ping NHL API...", "">> >>
    /\ slept' = <<>>
    /\ requested' = <<>>
    /\ fetched' = <<>>
    /\ write_log' = <<>>
    /\ prev_cycle' = CycleEnd(write_log, console)
    /\ UNCHANGED <<file, raised>>

\* Lines 95-100: one iteration of the for loop, the call of get_team_stats
\* included.  An exception that escapes the call ends the process.
FetchTeam ==
    /\ pc = "fetch"
    /\ team_i <= NumTeams
    /\ \E resp \in Responses :
         LET team == Teams[team_i]
             o    == get_team_stats(team, resp)
         IN  /\ requested' = requested \o o.gets
             /\ slept' = slept \o o.sleeps
             /\ IF o.exc # "none"
                THEN /\ pc' = "crashed"
                     /\ raised' = o.exc
                     /\ console' = console \o o.printed
                     /\ UNCHANGED <<team_i, all_data, fetched>>
                ELSE /\ pc' = "fetch"
                     /\ team_i' = NextTeam(team_i)
                     /\ fetched' = fetched \o o.ret
                     /\ all_data' = IF Truthy(o.ret) THEN all_data \o o.ret ELSE all_data
                     /\ console' = console \o o.printed \o
                                   (IF Truthy(o.ret) THEN << <<"Got skaters", team>> >> ELSE <<>>)
                     /\ UNCHANGED raised
    /\ UNCHANGED <<df_final, file, write_log, prev_cycle>>

\* Lines 102-115: the accumulator is not empty; build, enrich, select, sort.
Process ==
    /\ pc = "fetch"
    /\ team_i > NumTeams
    /\ HasData(all_data)
    /\ LET df          == DataFrame(all_data)
           df_enriched == enrich_data(df)
           selected    == Select(df_enriched, cols_order)
       IN  \E sorted \in sort_values(selected.rows) :
               df_final' = [columns |-> selected.columns, rows |-> sorted]
    /\ pc' = "write"
    /\ UNCHANGED <<team_i, all_data, file, console, slept, requested, fetched,
                   write_log, prev_cycle, raised>>

\* Lines 102, 125-126: the accumulator is empty.
NoData ==
    /\ pc = "fetch"
    /\ team_i > NumTeams
    /\ ~HasData(all_data)
    /\ console' = Append(console, <<"No data received.", "">>)
    /\ pc' = "idle"
    /\ UNCHANGED <<team_i, all_data, df_final, file, slept, requested, fetched,
                   write_log, prev_cycle, raised>>

\* Lines 117-123: the write, which another process holding the file fails.
Write ==
    /\ pc = "write"
    /\ \E locked \in BOOLEAN :
         LET w == try_to_csv(df_final, file, locked)
         IN  /\ file' = w.file
             /\ console' = console \o w.printed
             /\ write_log' = Append(write_log, w.result)
             /\ raised' = w.exc
             /\ pc' = IF w.exc = "none" THEN "idle" ELSE "crashed"
    /\ UNCHANGED <<team_i, all_data, df_final, slept, requested, fetched, prev_cycle>>

\* Lines 128-129: the sleep between two cycles, then back to line 90.
Idle ==
    /\ pc = "idle"
    /\ console' = Append(console, <<"Waiting for next update...", "">>)
    /\ slept' = Append(slept, REFRESH_RATE_MINUTES * 60)
    /\ pc' = "loop_top"
    /\ UNCHANGED <<team_i, all_data, df_final, file, requested, fetched,
                   write_log, prev_cycle, raised>>

Next == LoopTop \/ FetchTeam \/ Process \/ NoData \/ Write \/ Idle

Spec == Init /\ [][Next]_vars

----------------------------------------------------------------------------
(* Properties.                                                             *)

IsZero(x) == x.k = "fin" /\ x.n = 0

IsFinite(x) == x.k = "fin"

\* The frame enrich_data returns for the accumulator of the current cycle.
Enriched == enrich_data(DataFrame(all_data)).rows

\* The for loop of line 95 has run to its end.
AllAttempted == team_i > NumTeams

\* The columns that identify a fetched record in the file.
KeyColumns ==
    { "Team", "Player", "Position", "GamesPlayed", "Goals", "Assists",
      "Points", "PlusMinus", "PIM", "GWG", "PPG", "SHG" }

Key(r) == [c \in KeyColumns |-> r[c]]

Keys(rows) == [i \in 1..Len(rows) |-> Key(rows[i])]

Count(seq, x) == Cardinality({ i \in 1..Len(seq) : seq[i] = x })

SameBag(s, t) ==
    /\ Len(s) = Len(t)
    /\ \A x \in Range(s) \cup Range(t) : Count(s, x) = Count(t, x)

Printed(msg, arg) == <<msg, arg>> \in Range(console)

\* C1: for every raw record passed to enrich_data, a derived field whose
\* denominator is zero equals 0 (the three per-game ratios when GamesPlayed
\* is 0, Shooting_Pct when Shots is 0, Goal_Contribution_Pct when Points is
\* 0), whatever the numerator, and no derived field is NaN or infinite.
C1_ZeroDenominatorYieldsZero ==
    pc = "write" =>
        \A i \in 1..Len(Enriched) :
            LET r == Enriched[i] IN
            /\ r.GamesPlayed = 0 =>
                   /\ IsZero(r.Pts_Per_Game)
                   /\ IsZero(r.Assists_Per_Game)
                   /\ IsZero(r.Shots_Per_Game)
            /\ r.Shots = 0 => IsZero(r.Shooting_Pct)
            /\ r.Points = 0 => IsZero(r.Goal_Contribution_Pct)
            /\ IsFinite(r.Pts_Per_Game)
            /\ IsFinite(r.Assists_Per_Game)
            /\ IsFinite(r.Shots_Per_Game)
            /\ IsFinite(r.Shooting_Pct)
            /\ IsFinite(r.Goal_Contribution_Pct)

\* C2: whatever one entity's fetch brings (timeout, connection error, error
\* status, malformed body, a player object with an absent field, the nested
\* names included), no exception escapes get_team_stats and the process
\* keeps running.
C2_NoDataErrorEndsTheLoop == raised = "none" /\ pc # "crashed"

\* C3: a 429 answer makes get_team_stats pause once for the fixed time and
\* return an empty list without raising and without a second request for
\* that entity; the loop moves on to the next entity, and by the end of the
\* pass every entity, those after the rate-limited one included, has been
\* requested exactly once.
C3_RateLimitStep ==
    (/\ pc = "fetch"
     /\ ~AllAttempted
     /\ console' = Append(console, <<"Rate limit hit for", Teams[team_i]>>))
    => /\ slept' = Append(slept, 5)
       /\ requested' = Append(requested, Teams[team_i])
       /\ all_data' = all_data
       /\ fetched' = fetched
       /\ raised' = "none"
       /\ pc' = "fetch"
       /\ team_i' = team_i + 1

C3_RateLimitedOnce ==
    \A i \in 1..NumTeams :
        Printed("Rate limit hit for", Teams[i]) =>
            /\ Count(requested, Teams[i]) = 1
            /\ \A k \in 1..Len(all_data) : all_data[k].Team # Teams[i]
            /\ (pc \in {"write", "idle", "loop_top"} =>
                    \A j \in (i + 1)..NumTeams : Count(requested, Teams[j]) = 1)

C3_RateLimitContained == [][C3_RateLimitStep]_vars /\ []C3_RateLimitedOnce

C3_Witness ==
    /\ pc = "idle"
    /\ Printed("Rate limit hit for", Teams[1])
    /\ requested = Teams
    /\ Len(all_data) > 0

\* C4: when the accumulator is empty after every entity was attempted,
\* nothing is enriched and nothing is written: the file stays as it was,
\* "No data received." is printed and the loop goes to the inter-cycle sleep.
C4_EmptyStep ==
    (pc = "fetch" /\ AllAttempted /\ all_data = <<>>)
    => /\ pc' = "idle"
       /\ file' = file
       /\ df_final = EmptyFrame
       /\ df_final' = EmptyFrame
       /\ write_log' = <<>>
       /\ console' = Append(console, <<"No data received.", "">>)

C4_EmptySleep ==
    (pc = "idle" /\ all_data = <<>>)
    => /\ pc' = "loop_top"
       /\ file' = file
       /\ write_log' = <<>>
       /\ slept' = Append(slept, 300)

C4_EmptyCycleSkipsWrite == [][C4_EmptyStep /\ C4_EmptySleep]_vars

C4_Witness ==
    /\ pc = "loop_top"
    /\ requested = Teams
    /\ all_data = <<>>
    /\ Printed("No data received.", "")
    /\ write_log = <<>>
    /\ file = OldFile
    /\ slept # <<>>

\* C5: a write that fails on a locked destination is reported and does not
\* end the process; the file is untouched, the write is attempted at most
\* once per cycle, the loop goes to the sleep, and whatever a cycle hands to
\* the writer is built from the fetches of that cycle alone.
C5_LockedStep ==
    (pc = "write" /\ write_log' = Append(write_log, "PermissionError"))
    => /\ file' = file
       /\ raised' = "none"
       /\ pc' = "idle"
       /\ console' = Append(console, <<"ERROR: Close the CSV file!", "">>)
       /\ all_data' = all_data

C5_OneFreshAttempt ==
    /\ Len(write_log) <= 1
    /\ pc = "write" => SameBag(Keys(df_final.rows), Keys(fetched))
    /\ (pc = "idle" /\ write_log = <<"PermissionError">>) => raised = "none"

C5_LockedWriteContained == [][C5_LockedStep]_vars /\ []C5_OneFreshAttempt

C5_Witness ==
    /\ prev_cycle = "PermissionError"
    /\ pc = "idle"
    /\ write_log = <<"ok">>
    /\ raised = "none"

\* C6: the loop reaches the inter-cycle sleep only when each tracked entity
\* has been attempted exactly once, in the order of TEAMS_TO_WATCH, however
\* many attempts failed; nothing is enriched or written before the last
\* entity was attempted; after the sleep a new fetching pass begins.
C6_Sequential ==
    /\ pc = "fetch" =>
           /\ team_i \in 1..(NumTeams + 1)
           /\ requested = SubSeq(Teams, 1, team_i - 1)
           /\ df_final = EmptyFrame
           /\ write_log = <<>>
    /\ pc \in {"write", "idle"} => requested = Teams
    /\ (df_final # EmptyFrame \/ write_log # <<>>) => requested = Teams

C6_SleepThenFetch ==
    /\ pc = "idle" =>
           /\ pc' = "loop_top"
           /\ slept' = Append(slept, 300)
           /\ requested' = Teams
    /\ pc = "loop_top" =>
           /\ pc' = "fetch"
           /\ team_i' = 1
           /\ requested' = <<>>
           /\ all_data' = <<>>

C6_IdleAfterFullPass == []C6_Sequential /\ [][C6_SleepThenFetch]_vars

C6_Witness ==
    /\ pc = "idle"
    /\ prev_cycle # "first"
    /\ requested = Teams
    /\ Printed("Network error with", Teams[1])
    /\ write_log = <<"ok">>

\* C7: in every snapshot handed to the writer, and in every file it wrote, a
\* record with more points comes before a record with fewer.
C7_SortedByPoints ==
    /\ \A i, j \in 1..Len(df_final.rows) :
           df_final.rows[i].Points > df_final.rows[j].Points => i < j
    /\ LET written == FileRecords(file) IN
       \A i, j \in 1..Len(written) :
           written[i].Points > written[j].Points => i < j

C7_Witness ==
    /\ pc = "idle"
    /\ write_log = <<"ok">>
    /\ Len(file.lines) >= 2
    /\ \E i, j \in 1..Len(all_data) : i < j /\ all_data[i].Points < all_data[j].Points

\* C8: after a write, parsing the file back gives, for each enriched record,
\* a line with its entity, its player name and every numeric field of the
\* record: games played, goals, assists, points, shots, plus/minus, penalty
\* minutes, the three situational goal counts and the five derived fields.
NumericFields ==
    { "GamesPlayed", "Goals", "Assists", "Points", "Shots", "PlusMinus",
      "PIM", "GWG", "PPG", "SHG", "Pts_Per_Game", "Shooting_Pct",
      "Goal_Contribution_Pct", "Assists_Per_Game", "Shots_Per_Game" }

C8_RoundTrip ==
    (pc = "idle" /\ write_log = <<"ok">>) =>
        \A i \in 1..Len(Enriched) :
            \E j \in 1..Len(file.lines) :
                \A f \in {"Team", "Player"} \cup NumericFields :
                    /\ f \in DOMAIN read_csv(file)[j]
                    /\ read_csv(file)[j][f] = Enriched[i][f]

\* C9 as stated: every written file has the column order Team, Player,
\* Position, GamesPlayed, Points, Goals, Assists, ..., Last_Update last.
C9_TeamFirst ==
    write_log = <<"ok">> =>
        /\ Len(file.header) >= 8
        /\ SubSeq(file.header, 1, 7) =
               <<"Team", "Player", "Position", "GamesPlayed", "Points", "Goals", "Assists">>
        /\ file.header[Len(file.header)] = "Last_Update"

\* C9 as amended: every written file has the same fixed column order, which
\* is Player, Team, Position, GamesPlayed, Points, Goals, Assists, then the
\* derived and remaining counting fields, with Last_Update last.
C9_PlayerFirst ==
    write_log = <<"ok">> =>
        /\ file.header =
               << "Player", "Team", "Position", "GamesPlayed", "Points",
                  "Goals", "Assists", "Pts_Per_Game", "Shooting_Pct",
                  "PlusMinus", "PIM", "GWG", "PPG", "SHG",
                  "Goal_Contribution_Pct", "Assists_Per_Game",
                  "Shots_Per_Game", "Last_Update" >>
        /\ \A i \in 1..Len(file.lines) : Len(file.lines[i]) = Len(file.header)

C9_Witness ==
    /\ write_log = <<"ok">>
    /\ prev_cycle = "ok"
    /\ file.header[1] = "Player"
    /\ file.header[2] = "Team"

\* C10: whenever a write succeeds, the file holds exactly the records the
\* fetches of that same cycle returned, one line per fetched player and
\* nothing from an earlier cycle, whether that cycle wrote, failed to write
\* or skipped the write.
C10_FileIsThisCycle ==
    write_log = <<"ok">> =>
        /\ Len(file.lines) = Len(fetched)
        /\ SameBag(Keys(FileRecords(file)), Keys(fetched))

C10_Witness ==
    /\ write_log = <<"ok">>
    /\ prev_cycle \in {"PermissionError", "skipped"}
    /\ \A i \in 1..Len(file.lines) : FileRecords(file)[i].Team # "WPG"
    /\ Len(file.lines) >= 2

====
